---------------------------- MODULE Spec2Model ----------------------------
(***************************************************************************)
(* A model of bidscoin/dicomsort.py: the name sanitizer (cleanup), the     *)
(* session sorter (sortsession) and the session enumerator (sortsessions). *)
(*                                                                         *)
(* A string is a sequence of one-character strings, a path is a sequence   *)
(* of path components (strings) below the raw-data root, and a value read  *)
(* from a DICOM file is <<>> (None) or <<v>>.                              *)
(***************************************************************************)
EXTENDS Integers, Sequences, FiniteSets, TLC

(***************************************************************************)
(* Bounds of the model.                                                    *)
(***************************************************************************)
\* The longest string handed to cleanup in SpecCleanup.
MaxLen == 3
\* The most files a raw-data tree holds at the start.
MaxFiles == 2
\* The most invocations of sortsessions (the command line run again).
MaxRuns == 2

(***************************************************************************)
(* Strings.                                                                *)
(***************************************************************************)
os_sep == "/"

IsSpace(c) == c \in {" ", "\t", "\n"}

RECURSIVE str_lstrip(_)
str_lstrip(s) ==
    IF s # <<>> /\ IsSpace(Head(s)) THEN str_lstrip(Tail(s)) ELSE s

RECURSIVE str_rstrip(_)
str_rstrip(s) ==
    IF s # <<>> /\ IsSpace(s[Len(s)])
    THEN str_rstrip(SubSeq(s, 1, Len(s) - 1))
    ELSE s

\* str.strip() without arguments
str_strip(s) == str_rstrip(str_lstrip(s))

StartsWith(s, prefix) ==
    /\ Len(prefix) <= Len(s)
    /\ SubSeq(s, 1, Len(prefix)) = prefix

EndsWith(s, suffix) ==
    /\ Len(suffix) <= Len(s)
    /\ SubSeq(s, Len(s) - Len(suffix) + 1, Len(s)) = suffix

\* Python values as str.replace sees them: a str or a tuple of str.
PyStr(s) == [type |-> "str", val |-> s]
PyTuple(t) == [type |-> "tuple", val |-> t]

\* The result of a call: the value returned, or the exception raised.
Returned(v) == [exc |-> "", val |-> v]
Raised(e) == [exc |-> e, val |-> <<>>]

\* s.replace(old, new) for a non-empty str old: every occurrence, left to right
RECURSIVE replace_all(_, _, _)
replace_all(s, old, new) ==
    IF s = <<>> THEN <<>>
    ELSE IF StartsWith(s, old)
         THEN new \o replace_all(SubSeq(s, Len(old) + 1, Len(s)), old, new)
         ELSE <<Head(s)>> \o replace_all(Tail(s), old, new)

\* str.replace(old, new): old must be a str, anything else is a TypeError
\* ("replace() argument 1 must be str, not tuple")
str_replace(s, old, new) ==
    IF old.type # "str" THEN Raised("TypeError")
    ELSE Returned(replace_all(s, old.val, new))

special_characters == PyTuple(<<os_sep, "*", "?", "\"">>)

\* cleanup(name): name.strip().replace(special_characters, '')
cleanup(name) == str_replace(str_strip(name), special_characters, <<>>)

(***************************************************************************)
(* Formatting and path helpers.                                            *)
(***************************************************************************)
Digit(n) == <<"0", "1", "2", "3", "4", "5", "6", "7", "8", "9">>[n + 1]

RECURSIVE Digits(_)
Digits(n) == IF n < 10 THEN <<Digit(n)>> ELSE Digits(n \div 10) \o <<Digit(n % 10)>>

RECURSIVE ZeroFill(_, _)
ZeroFill(s, width) == IF Len(s) >= width THEN s ELSE ZeroFill(<<"0">> \o s, width)

\* f'{n:0<width>d}' for a non-negative int n
fmt_d(n, width) == ZeroFill(Digits(n), width)

\* The name of the raw-data root itself (it is not an index file)
RootName == <<"r", "a", "w">>

\* os.path.basename and os.path.dirname of a path below the root
basename(path) == IF path = <<>> THEN RootName ELSE path[Len(path)]
dirname(path) == IF path = <<>> THEN <<>> ELSE SubSeq(path, 1, Len(path) - 1)

\* os.path.join(folder, name) and os.path.join(folder, *names)
join(folder, name) == Append(folder, name)
join_all(folder, names) == folder \o names

\* The index of the last "." of a name, 0 when there is none
RECURSIVE rfind_dot(_)
rfind_dot(s) ==
    IF s = <<>> THEN 0
    ELSE IF s[Len(s)] = "." THEN Len(s)
    ELSE rfind_dot(SubSeq(s, 1, Len(s) - 1))

\* os.path.splitext(path)[1]: from the last dot of the basename on, unless
\* only dots come before it
splitext_ext(path) ==
    LET name == basename(path)
        i == rfind_dot(name)
    IN IF i = 0 \/ \A j \in 1..i : name[j] = "." THEN <<>>
       ELSE SubSeq(name, i, Len(name))

(***************************************************************************)
(* File and folder names of the bounded inputs.                            *)
(***************************************************************************)
N_a == <<"a", ".", "d", "c", "m">>
N_b == <<"b", ".", "I", "M", "A">>
N_c == <<"c">>
D_A == <<"A">>
D_series == <<"0", "0", "3", "-", "T", "1">>
D_sub1 == <<"s", "u", "b", "-", "1">>
D_sub2 == <<"s", "u", "b", "-", "2">>
D_x == <<"x">>
D_ses1 == <<"s", "e", "s", "-", "1">>
D_y == <<"y">>
DICOMDIR == <<"D", "I", "C", "O", "M", "D", "I", "R">>
P_sub == <<"s", "u", "b">>
P_ses == <<"s", "e", "s">>

(***************************************************************************)
(* The DICOM fields of a file.  None is <<>>, a value v is <<v>>.          *)
(***************************************************************************)
None == <<>>
Some(v) == <<v>>

Kinds == {"full", "nosn", "bare", "old"}

Fields(sn, sd, pn, acq, inst, img, pat, pats) ==
    [SeriesNumber |-> sn, SeriesDescription |-> sd, ProtocolName |-> pn,
     AcquisitionNumber |-> acq, InstanceNumber |-> inst, ImageNumber |-> img,
     PatientName |-> pat, PatientsName |-> pats]

Meta(kind) ==
    CASE kind = "full" ->
           Fields(Some(3), Some(<<"T", "1">>), Some(<<"p">>), Some(1), Some(23),
                  None, Some(<<"D", "^", "J">>), None)
      [] kind = "nosn" ->
           Fields(None, Some(<<"T", "1">>), Some(<<"p">>), Some(1), Some(23),
                  None, Some(<<"D", "^", "J">>), None)
      [] kind = "bare" ->
           Fields(Some(5), None, None, None, None, None, None, None)
      [] OTHER ->
           Fields(Some(7), None, Some(<<"a", "/", "b">>), Some(0), None,
                  Some(4), None, Some(<<"X">>))

\* Python's truth value of a field: None, 0 and '' are false
TruthyNum(x) == x # None /\ x[1] # 0
TruthyStr(x) == x # None /\ x[1] # <<>>

(***************************************************************************)
(* State.                                                                  *)
(***************************************************************************)
VARIABLES
    \* the arguments of sortsessions
    rawfolder, subjectid, sessionid, rename, nosort, pattern,
    \* the file system below the raw-data root: path -> file, the directories,
    \* and the index file's content (patients of studies of series of images)
    fs, dirs, dicomdir,
    \* what the run has emitted and how it ended
    warnings, pc, exc,
    \* sortsessions: the folders listed by lsdirs and the position in each loop
    subfolders, subidx, sesfolders, sesidx,
    \* sortsession: its locals
    sessionfolder, dicomfiles, seriesdirs, fileidx,
    \* history: the tree at the start, the invocations of sortsession, the
    \* moves made, the number of runs and the tree each completed run left
    fs0, dirs0, calls, moves, runs, after,
    \* cleanup on its own: the argument, and the result once it was called
    name, cleaned

vars == <<rawfolder, subjectid, sessionid, rename, nosort, pattern,
          fs, dirs, dicomdir, warnings, pc, exc,
          subfolders, subidx, sesfolders, sesidx,
          sessionfolder, dicomfiles, seriesdirs, fileidx,
          fs0, dirs0, calls, moves, runs, after, name, cleaned>>

args == <<rawfolder, subjectid, sessionid, rename, nosort, pattern>>
history == <<fs0, dirs0>>
enumvars == <<subfolders, subidx, sesfolders, sesidx>>
cleanupvars == <<name, cleaned>>

(***************************************************************************)
(* The collaborators: the directory listings, the pattern match and the    *)
(* metadata reader.                                                        *)
(***************************************************************************)
\* The immediate entries of a folder, files and directories alike
listdir(folder) ==
    {p[Len(p)] : p \in {q \in (DOMAIN fs) \cup dirs :
                            Len(q) = Len(folder) + 1 /\ dirname(q) = folder}}

\* The orders os.listdir may return a set of entries in
Orderings(S) ==
    {o \in [1..Cardinality(S) -> S] : \A i, j \in 1..Cardinality(S) : o[i] = o[j] => i = j}

\* re.match(pattern, dcmfile) for the two patterns of the bounded inputs:
\* the default '.*\.(IMA|dcm)$' and '.*'
re_match(pat, dcmfile) ==
    IF pat = "default"
    THEN EndsWith(dcmfile, <<".", "I", "M", "A">>) \/ EndsWith(dcmfile, <<".", "d", "c", "m">>)
    ELSE TRUE

\* The folder names in the order lsdirs lists them
DirNames == <<D_A, D_ses1, D_sub1, D_sub2, D_x, D_y>>

\* bids.lsdirs(folder, prefix + '*'): the immediate subdirectories whose name
\* starts with the prefix, in listing order
lsdirs(folder, prefix) ==
    LET names == SelectSeq(DirNames, LAMBDA n : join(folder, n) \in dirs /\ StartsWith(n, prefix))
    IN [i \in 1..Len(names) |-> join(folder, names[i])]

\* bids.get_dicomfield can read the file: it is there, and the read succeeds
readable(dicomfile, io) == dicomfile \in DOMAIN fs /\ io # "read_error"

\* What the environment does to the loop body's calls
IOOutcomes == {"ok", "read_error", "makedirs_error", "rename_error"}

(***************************************************************************)
(* sortsession: the body of the loop over dicomfiles, for one file.        *)
(* The result names the exception raised ("" for none), the warnings       *)
(* emitted, the directories created, the new seriesdirs, and the move made *)
(* (<<>> for none, else <<source, destination>>).                          *)
(***************************************************************************)
Warning(kind, path) == [kind |-> kind, path |-> path]

Outcome(e, w, mk, sd, mv) == [exc |-> e, warns |-> w, made |-> mk, seriesdirs |-> sd, move |-> mv]

\* lines 105-113: the series subfolder and the move
move_file(dicomfile, io, w, pathname, made, sd, filename) ==
    LET dst == join(pathname, filename)
    IN IF io = "rename_error" \/ dst \in dirs \cup made
       THEN Outcome("OSError", w, made, sd, <<>>)
       ELSE Outcome("", w, made, sd, <<dicomfile, dst>>)

\* lines 102-112: the output directory
sort_file(dicomfile, io, w, seriesnr, seriesdescr, filename) ==
    IF nosort THEN move_file(dicomfile, io, w, sessionfolder, {}, seriesdirs, filename)
    ELSE LET seriesdir == cleanup(fmt_d(seriesnr, 3) \o <<"-">> \o seriesdescr)
             target == join(sessionfolder, seriesdir.val)
             known == \E i \in 1..Len(seriesdirs) : seriesdirs[i] = seriesdir.val
             create == ~known /\ target \notin dirs
         IN IF seriesdir.exc # "" THEN Outcome(seriesdir.exc, w, {}, seriesdirs, <<>>)
            ELSE IF create /\ (io = "makedirs_error" \/ target \in DOMAIN fs)
            THEN Outcome("OSError", w, {}, seriesdirs, <<>>)
            ELSE move_file(dicomfile, io, w, target,
                           IF create THEN {target} ELSE {},
                           IF known THEN seriesdirs ELSE Append(seriesdirs, seriesdir.val),
                           filename)

\* The output filename taken from the session folder instead of the file
name_file_folder(dicomfile, io, w, m, seriesnr, seriesdescr) ==
    sort_file(dicomfile, io, w, seriesnr, seriesdescr, basename(sessionfolder))

\* lines 82-101: the fields of the new name, and the output filename
name_file(dicomfile, io, w, m, seriesnr, seriesdescr) ==
    IF ~rename THEN sort_file(dicomfile, io, w, seriesnr, seriesdescr, basename(dicomfile))
    ELSE LET acquisitionnr == m.AcquisitionNumber
             instancenr == IF TruthyNum(m.InstanceNumber) THEN m.InstanceNumber
                           ELSE m.ImageNumber
             patientname == IF TruthyStr(m.PatientName) THEN m.PatientName
                            ELSE m.PatientsName
             ext == IF splitext_ext(dicomfile) = <<>> THEN <<".", "d", "c", "m">>
                    ELSE splitext_ext(dicomfile)
         IN IF ~(TruthyStr(patientname) /\ seriesnr # 0 /\ seriesdescr # <<>>
                   /\ TruthyNum(acquisitionnr) /\ TruthyNum(instancenr))
            THEN sort_file(dicomfile, io, Append(w, Warning("MissingFields", dicomfile)),
                           seriesnr, seriesdescr, basename(dicomfile))
            ELSE LET filename == cleanup(patientname[1] \o <<"_">> \o fmt_d(seriesnr, 3)
                                         \o <<"_">> \o seriesdescr
                                         \o <<"_">> \o fmt_d(acquisitionnr[1], 5)
                                         \o <<"_">> \o fmt_d(instancenr[1], 5) \o ext)
                 IN IF filename.exc # "" THEN Outcome(filename.exc, w, {}, seriesdirs, <<>>)
                    ELSE sort_file(dicomfile, io, w, seriesnr, seriesdescr, filename.val)

unknown_protocol ==
    <<"u", "n", "k", "n", "o", "w", "n", "_", "p", "r", "o", "t", "o", "c", "o", "l">>

\* lines 77-81: the SeriesDescription, else the ProtocolName, else a fixed name
describe_file(dicomfile, io, w, m, seriesnr) ==
    IF TruthyStr(m.SeriesDescription)
    THEN name_file(dicomfile, io, w, m, seriesnr, m.SeriesDescription[1])
    ELSE IF TruthyStr(m.ProtocolName)
    THEN name_file(dicomfile, io, w, m, seriesnr, m.ProtocolName[1])
    ELSE name_file(dicomfile, io, Append(w, Warning("NoDescription", dicomfile)), m,
                   seriesnr, unknown_protocol)

\* The loop body without its "continue": a file without SeriesNumber is
\* warned about and then handled like the others, as series 0
loop_body_no_continue(dicomfile, io) ==
    IF ~readable(dicomfile, io) THEN Outcome("ReadError", <<>>, {}, seriesdirs, <<>>)
    ELSE LET m == Meta(fs[dicomfile].kind)
         IN IF ~TruthyNum(m.SeriesNumber)
            THEN describe_file(dicomfile, io, <<Warning("NoSeriesNumber", dicomfile)>>, m, 0)
            ELSE describe_file(dicomfile, io, <<>>, m, m.SeriesNumber[1])

\* lines 72-76: SeriesNumber and SeriesDescription are read; a file without
\* SeriesNumber is skipped with a warning
loop_body(dicomfile, io) ==
    IF ~readable(dicomfile, io) THEN Outcome("ReadError", <<>>, {}, seriesdirs, <<>>)
    ELSE LET m == Meta(fs[dicomfile].kind)
         IN IF ~TruthyNum(m.SeriesNumber)
            THEN Outcome("", <<Warning("NoSeriesNumber", dicomfile)>>, {}, seriesdirs, <<>>)
            ELSE describe_file(dicomfile, io, <<>>, m, m.SeriesNumber[1])

\* os.rename(source, destination): the file system after the move
renamed(files, move) ==
    IF move = <<>> \/ move[1] = move[2] THEN files
    ELSE [p \in ((DOMAIN files) \ {move[1]}) \cup {move[2]} |->
            IF p = move[2] THEN files[move[1]] ELSE files[p]]

(***************************************************************************)
(* sortsession: collecting the DICOM files (lines 40-68).                  *)
(***************************************************************************)
RECURSIVE Flatten(_)
Flatten(ss) == IF ss = <<>> THEN <<>> ELSE Head(ss) \o Flatten(Tail(ss))

Collected(e, w, ret, folder, files) ==
    [exc |-> e, warns |-> w, returns |-> ret, sessionfolder |-> folder, dicomfiles |-> files]

\* The names os.listdir(sessionfolder) gives that match the pattern
matching(folder) ==
    IF basename(folder) = DICOMDIR THEN {}
    ELSE {n \in listdir(folder) : re_match(pattern, n)}

\* order: the order os.listdir returned the matching names in
collect(folder, order) ==
    IF basename(folder) = DICOMDIR
    THEN IF Len(dicomdir) > 1
         THEN Collected("", <<Warning("MultipleSubjects", folder)>>, TRUE, folder, <<>>)
         ELSE IF Len(dicomdir) = 0
         THEN Collected("IndexError", <<>>, FALSE, folder, <<>>)
         ELSE IF Len(dicomdir[1]) > 1
         THEN Collected("", <<Warning("MultipleStudies", folder)>>, TRUE, folder, <<>>)
         ELSE LET images == Flatten(Flatten(Flatten(dicomdir)))
              IN Collected("", <<>>, FALSE, dirname(folder),
                           [i \in 1..Len(images) |-> join_all(dirname(folder), images[i])])
    ELSE Collected("", <<>>, FALSE, folder,
                   [i \in 1..Len(order) |-> join(folder, order[i])])

\* Where sortsessions goes on when sortsession returns
Caller ==
    IF subjectid = <<>> THEN "returned"
    ELSE IF sessionid # <<>> THEN "sessions" ELSE "subjects"

Tree == [fs |-> fs, dirs |-> dirs]

\* The call sortsession(folder, pattern, rename, nosort), up to its loop
Invoke(folder) ==
    \E order \in Orderings(matching(folder)) :
        LET c == collect(folder, order)
        IN /\ calls' = Append(calls, [sessionfolder |-> folder, pattern |-> pattern,
                                      rename |-> rename, nosort |-> nosort])
           /\ warnings' = warnings \o c.warns
           /\ exc' = c.exc
           /\ pc' = IF c.exc # "" THEN "raised" ELSE IF c.returns THEN Caller ELSE "files"
           /\ after' = IF c.exc = "" /\ c.returns /\ Caller = "returned"
                       THEN Append(after, Tree) ELSE after
           /\ sessionfolder' = c.sessionfolder
           /\ dicomfiles' = c.dicomfiles
           /\ seriesdirs' = <<>>
           /\ fileidx' = 1
           /\ UNCHANGED <<args, history, fs, dirs, dicomdir, moves, runs, cleanupvars>>

\* The loop body has no handler: an exception raised in it leaves the loop,
\* sortsession and sortsessions
propagate_swallowed(e) == "files"

propagate(e) == IF e = "" THEN "files" ELSE "raised"

\* One pass of the loop over dicomfiles (lines 69-113)
ProcessFile ==
    /\ pc = "files"
    /\ fileidx <= Len(dicomfiles)
    /\ \E io \in IOOutcomes :
        LET r == loop_body(dicomfiles[fileidx], io)
        IN /\ warnings' = warnings \o r.warns
           /\ dirs' = dirs \cup r.made
           /\ seriesdirs' = r.seriesdirs
           /\ fs' = renamed(fs, r.move)
           /\ moves' = IF r.move = <<>> THEN moves
                       ELSE Append(moves, [src |-> r.move[1], dst |-> r.move[2],
                                           file |-> fs[r.move[1]]])
           /\ exc' = r.exc
           /\ pc' = propagate(r.exc)
           /\ fileidx' = IF pc' = "files" THEN fileidx + 1 ELSE fileidx
    /\ UNCHANGED <<args, history, dicomdir, enumvars, sessionfolder, dicomfiles,
                   calls, runs, after, cleanupvars>>

\* The loop is over: sortsession returns to sortsessions
EndFiles ==
    /\ pc = "files"
    /\ fileidx > Len(dicomfiles)
    /\ pc' = Caller
    /\ after' = IF Caller = "returned" THEN Append(after, Tree) ELSE after
    /\ UNCHANGED <<args, history, fs, dirs, dicomdir, warnings, exc, enumvars,
                   sessionfolder, dicomfiles, seriesdirs, fileidx,
                   calls, moves, runs, cleanupvars>>

(***************************************************************************)
(* sortsessions (lines 128-136).                                           *)
(***************************************************************************)
\* No subject prefix: the session sorter runs on the root folder
SortRoot ==
    /\ pc = "main"
    /\ subjectid = <<>>
    /\ Invoke(rawfolder)
    /\ UNCHANGED enumvars

ListSubjects ==
    /\ pc = "main"
    /\ subjectid # <<>>
    /\ subfolders' = lsdirs(rawfolder, subjectid)
    /\ subidx' = 1
    /\ pc' = "subjects"
    /\ UNCHANGED <<args, history, fs, dirs, dicomdir, warnings, exc, sesfolders, sesidx,
                   sessionfolder, dicomfiles, seriesdirs, fileidx,
                   calls, moves, runs, after, cleanupvars>>

\* A subject folder, no session prefix: the session sorter runs on it
SortSubject ==
    /\ pc = "subjects"
    /\ subidx <= Len(subfolders)
    /\ sessionid = <<>>
    /\ subidx' = subidx + 1
    /\ Invoke(subfolders[subidx])
    /\ UNCHANGED <<subfolders, sesfolders, sesidx>>

\* The session folders listed without the session prefix
ListSessions_no_prefix ==
    /\ pc = "subjects"
    /\ subidx <= Len(subfolders)
    /\ sessionid # <<>>
    /\ subidx' = subidx + 1
    /\ sesfolders' = lsdirs(subfolders[subidx], <<>>)
    /\ sesidx' = 1
    /\ pc' = "sessions"
    /\ UNCHANGED <<args, history, fs, dirs, dicomdir, warnings, exc, subfolders,
                   sessionfolder, dicomfiles, seriesdirs, fileidx,
                   calls, moves, runs, after, cleanupvars>>

\* A subject folder, with a session prefix: its session folders are listed
ListSessions ==
    /\ pc = "subjects"
    /\ subidx <= Len(subfolders)
    /\ sessionid # <<>>
    /\ subidx' = subidx + 1
    /\ sesfolders' = lsdirs(subfolders[subidx], sessionid)
    /\ sesidx' = 1
    /\ pc' = "sessions"
    /\ UNCHANGED <<args, history, fs, dirs, dicomdir, warnings, exc, subfolders,
                   sessionfolder, dicomfiles, seriesdirs, fileidx,
                   calls, moves, runs, after, cleanupvars>>

SortSession ==
    /\ pc = "sessions"
    /\ sesidx <= Len(sesfolders)
    /\ sesidx' = sesidx + 1
    /\ Invoke(sesfolders[sesidx])
    /\ UNCHANGED <<subfolders, subidx, sesfolders>>

EndSessions ==
    /\ pc = "sessions"
    /\ sesidx > Len(sesfolders)
    /\ pc' = "subjects"
    /\ UNCHANGED <<args, history, fs, dirs, dicomdir, warnings, exc, enumvars,
                   sessionfolder, dicomfiles, seriesdirs, fileidx,
                   calls, moves, runs, after, cleanupvars>>

EndSubjects ==
    /\ pc = "subjects"
    /\ subidx > Len(subfolders)
    /\ pc' = "returned"
    /\ after' = Append(after, Tree)
    /\ UNCHANGED <<args, history, fs, dirs, dicomdir, warnings, exc, enumvars,
                   sessionfolder, dicomfiles, seriesdirs, fileidx,
                   calls, moves, runs, cleanupvars>>

\* The command line is run again, with the same arguments, on the tree the
\* run before it left
Rerun ==
    /\ pc = "returned"
    /\ runs < MaxRuns
    /\ runs' = runs + 1
    /\ pc' = "main"
    /\ warnings' = <<>>
    /\ calls' = <<>>
    /\ moves' = <<>>
    /\ subfolders' = <<>>
    /\ subidx' = 1
    /\ sesfolders' = <<>>
    /\ sesidx' = 1
    /\ sessionfolder' = <<>>
    /\ dicomfiles' = <<>>
    /\ seriesdirs' = <<>>
    /\ fileidx' = 1
    /\ UNCHANGED <<args, history, fs, dirs, dicomdir, exc, after, cleanupvars>>

(***************************************************************************)
(* The bounded inputs: the trees a run may start on.                       *)
(***************************************************************************)
\* The files a tree may hold at the given paths: at most MaxFiles of them
FileSystems(paths, kinds) ==
    UNION {[P -> kinds] : P \in {Q \in SUBSET paths : Cardinality(Q) <= MaxFiles}}

File(path, kind) == [orig |-> path, kind |-> kind]

\* A session folder given as the root: files in it, in a subfolder the
\* index file may refer to, and in a series subfolder left by an earlier sort
RootPaths == {<<N_a>>, <<N_b>>, <<N_c>>, <<D_A, N_a>>, <<D_series, N_a>>}

\* Index files: patients of studies of series of images, an image being the
\* components of its ReferencedFileID
Study_ab == << << <<N_a>>, <<N_b>> >> >>
Study_Aa == << << <<D_A, N_a>> >>, << <<N_a>> >> >>
DicomDirs ==
    { <<>>,
      << <<Study_ab>>, <<Study_ab>> >>,
      << <<>> >>,
      << <<Study_ab, Study_Aa>> >>,
      << <<Study_ab>> >>,
      << <<Study_Aa>> >> }

\* A root of subject folders of session folders
TreeDirs ==
    {D \in SUBSET {<<D_sub1>>, <<D_sub2>>, <<D_sub1, D_ses1>>, <<D_sub1, D_y>>,
                   <<D_sub2, D_ses1>>} :
        \A d \in D : Len(d) = 2 => dirname(d) \in D}

Start(kindof, D) ==
    /\ fs = [p \in DOMAIN kindof |-> File(p, kindof[p])]
    /\ dirs = D
    /\ fs0 = fs
    /\ dirs0 = dirs
    /\ warnings = <<>>
    /\ pc = "main"
    /\ exc = ""
    /\ subfolders = <<>>
    /\ subidx = 1
    /\ sesfolders = <<>>
    /\ sesidx = 1
    /\ sessionfolder = <<>>
    /\ dicomfiles = <<>>
    /\ seriesdirs = <<>>
    /\ fileidx = 1
    /\ calls = <<>>
    /\ moves = <<>>
    /\ runs = 1
    /\ after = <<>>
    /\ cleaned = Raised("NotCalled")

\* sortsessions on a session folder, or on the index file in it
InitRoot ==
    /\ rawfolder \in {<<>>, <<DICOMDIR>>}
    /\ subjectid = <<>>
    /\ sessionid \in {<<>>, P_ses}
    /\ rename \in BOOLEAN
    /\ nosort \in BOOLEAN
    /\ pattern \in {"default", "any"}
    /\ dicomdir \in IF rawfolder = <<>> THEN {<<>>} ELSE DicomDirs
    /\ name = <<>>
    /\ rawfolder # <<>> => pattern = "default" /\ sessionid = <<>>
    /\ \E kindof \in FileSystems(RootPaths, Kinds) :
        \E empty \in SUBSET {<<D_series>>} :
            Start(kindof, {dirname(p) : p \in {q \in DOMAIN kindof : Len(q) = 2}} \cup empty)

\* sortsessions on a root of subject folders
InitTree ==
    /\ rawfolder = <<>>
    /\ subjectid \in {P_sub, D_sub1}
    /\ sessionid \in {<<>>, P_ses}
    /\ rename \in BOOLEAN
    /\ nosort \in BOOLEAN
    /\ pattern \in {"default", "any"}
    /\ dicomdir = <<>>
    /\ name = <<>>
    /\ \E D \in TreeDirs :
        \E kindof \in FileSystems({join(d, N_a) : d \in D}, {"full", "nosn"}) :
            Start(kindof, D)

Init == InitRoot \/ InitTree

Next ==
    \/ SortRoot
    \/ ListSubjects
    \/ SortSubject
    \/ ListSessions
    \/ SortSession
    \/ EndSessions
    \/ EndSubjects
    \/ ProcessFile
    \/ EndFiles
    \/ Rerun

Spec == Init /\ [][Next]_vars

(***************************************************************************)
(* cleanup on its own, on every string up to MaxLen characters.            *)
(***************************************************************************)
Alphabet == {" ", "/", "*", "?", "\"", "a"}

Strings == UNION {[1..n -> Alphabet] : n \in 0..MaxLen}

InitCleanup ==
    /\ rawfolder = <<>>
    /\ subjectid = <<>>
    /\ sessionid = <<>>
    /\ rename = FALSE
    /\ nosort = FALSE
    /\ pattern = "default"
    /\ dicomdir = <<>>
    /\ name \in Strings
    /\ Start(<<>>, {})

CallCleanup ==
    /\ cleaned = Raised("NotCalled")
    /\ cleaned' = cleanup(name)
    /\ UNCHANGED <<args, history, fs, dirs, dicomdir, warnings, pc, exc, enumvars,
                   sessionfolder, dicomfiles, seriesdirs, fileidx,
                   calls, moves, runs, after, name>>

NextCleanup == CallCleanup

SpecCleanup == InitCleanup /\ [][NextCleanup]_vars

(***************************************************************************)
(* Vocabulary of the properties.                                           *)
(***************************************************************************)
\* The sanitizer as specified: strip the whitespace at both ends, then remove
\* every path separator, '*', '?' and '"'
sanitize(s) == SelectSeq(str_strip(s), LAMBDA c : c \notin {os_sep, "*", "?", "\""})

Present(x) == x # None

\* The run is over, and no failure of the reader or the file system ended it
Ended == pc = "returned" \/ (pc = "raised" /\ exc \notin {"ReadError", "OSError"})

\* The files as the current run of sortsessions found them
RunStart == IF runs = 1 THEN fs0 ELSE after[runs - 1].fs

\* The discovered files of the session at hand that were files at the start
Discovered == {i \in 1..Len(dicomfiles) : dicomfiles[i] \in DOMAIN fs0}

MetaAt(i) == Meta(fs0[dicomfiles[i]].kind)

\* The file discovered as number i is now at path q
IsAt(i, q) == q \in DOMAIN fs /\ fs[q] = fs0[dicomfiles[i]]

SeriesDirOf(i) ==
    sanitize(fmt_d(MetaAt(i).SeriesNumber[1], 3) \o <<"-">> \o MetaAt(i).SeriesDescription[1])

AllPresent(m) ==
    /\ Present(m.PatientName)
    /\ Present(m.SeriesNumber)
    /\ Present(m.SeriesDescription)
    /\ Present(m.AcquisitionNumber)
    /\ Present(m.InstanceNumber)

TemplateName(i) ==
    LET m == MetaAt(i)
        e == splitext_ext(dicomfiles[i])
    IN sanitize(m.PatientName[1] \o <<"_">> \o fmt_d(m.SeriesNumber[1], 3)
                \o <<"_">> \o m.SeriesDescription[1]
                \o <<"_">> \o fmt_d(m.AcquisitionNumber[1], 5)
                \o <<"_">> \o fmt_d(m.InstanceNumber[1], 5)
                \o (IF e = <<>> THEN <<".", "d", "c", "m">> ELSE e))

IsPrefix(s, t) == Len(s) <= Len(t) /\ SubSeq(t, 1, Len(s)) = s

\* The immediate subfolders of a folder at the start whose name has the prefix
Subfolders0(folder, prefix) ==
    LET names == SelectSeq(DirNames, LAMBDA n : Append(folder, n) \in dirs0
                                                  /\ StartsWith(n, prefix))
    IN [i \in 1..Len(names) |-> Append(folder, names[i])]

CallOn(folder) ==
    [sessionfolder |-> folder, pattern |-> pattern, rename |-> rename, nosort |-> nosort]

\* The folder an invocation sorts: the folder given, or the one that holds
\* the index file given
SessionFolderOf(call) ==
    IF basename(call.sessionfolder) = DICOMDIR THEN dirname(call.sessionfolder)
    ELSE call.sessionfolder

\* The invocations the enumerator is specified to make, in order
ExpectedCalls ==
    IF subjectid = <<>> THEN <<CallOn(rawfolder)>>
    ELSE LET subs == Subfolders0(rawfolder, subjectid)
         IN IF sessionid = <<>> THEN [i \in 1..Len(subs) |-> CallOn(subs[i])]
            ELSE LET sess == Flatten([i \in 1..Len(subs) |-> Subfolders0(subs[i], sessionid)])
                 IN [i \in 1..Len(sess) |-> CallOn(sess[i])]

(***************************************************************************)
(* Properties.                                                             *)
(***************************************************************************)

\* C1: with nosort disabled, once sortsession has run, every discovered file
\* with a present SeriesNumber n and SeriesDescription d is in the subfolder
\* sanitize("{n:03d}-{d}") of the session folder.
C1_SortPlacement ==
    (~nosort /\ runs = 1 /\ Ended) =>
        \A i \in Discovered :
            (Present(MetaAt(i).SeriesNumber) /\ Present(MetaAt(i).SeriesDescription)) =>
                \E q \in DOMAIN fs :
                    IsAt(i, q) /\ dirname(q) = join(sessionfolder, SeriesDirOf(i))

\* C2: for every input, cleanup returns a string without the path separator,
\* '*', '?' and '"', and without leading or trailing whitespace.
C2_SanitizerProperty ==
    cleaned.exc # "NotCalled" =>
        /\ cleaned.exc = ""
        /\ \A i \in 1..Len(cleaned.val) : cleaned.val[i] \notin {os_sep, "*", "?", "\""}
        /\ cleaned.val # <<>> =>
               ~IsSpace(cleaned.val[1]) /\ ~IsSpace(cleaned.val[Len(cleaned.val)])

\* C3: a pass of the loop over a file whose SeriesNumber is absent, the reader
\* having read it, leaves every file and directory as it is, emits exactly one
\* warning, about that file, and goes on to the next file.
C3_MissingSeriesNumber ==
    [][(/\ pc = "files"
        /\ fileidx <= Len(dicomfiles)
        /\ dicomfiles[fileidx] \in DOMAIN fs
        /\ ~Present(Meta(fs[dicomfiles[fileidx]].kind).SeriesNumber)
        /\ exc' # "ReadError")
       => (/\ fs' = fs
           /\ dirs' = dirs
           /\ moves' = moves
           /\ warnings' = Append(warnings, Warning("NoSeriesNumber", dicomfiles[fileidx]))
           /\ pc' = "files"
           /\ fileidx' = fileidx + 1
           /\ dicomfiles' = dicomfiles)]_vars

\* C3: a file without SeriesNumber was skipped with its warning, and the file
\* after it has been processed.
C3_Witness ==
    /\ pc = "files"
    /\ fileidx = 3
    /\ warnings # <<>>
    /\ warnings[1] = Warning("NoSeriesNumber", dicomfiles[1])
    /\ fs = fs0
    /\ Len(moves) = 1

\* C4: given an index file that does not hold exactly one patient with
\* exactly one study, sortsession returns normally with exactly one warning,
\* no file moved and no directory created.
C4_IndexCardinality ==
    (/\ basename(rawfolder) = DICOMDIR
     /\ calls # <<>>
     /\ ~(Len(dicomdir) = 1 /\ Len(dicomdir[1]) = 1))
    => (/\ pc = "returned"
        /\ exc = ""
        /\ Len(warnings) = 1
        /\ fs = RunStart
        /\ dirs = dirs0)

\* C5: every processed file ends under the template name when rename is
\* requested and the five fields are present, and under its original basename
\* otherwise, with a warning when rename is requested and a field is missing.
C5_OutputFilename ==
    (runs = 1 /\ Ended) =>
        \A i \in Discovered :
            Present(MetaAt(i).SeriesNumber) =>
                /\ \E q \in DOMAIN fs :
                       /\ IsAt(i, q)
                       /\ basename(q) = IF rename /\ AllPresent(MetaAt(i))
                                        THEN TemplateName(i)
                                        ELSE basename(dicomfiles[i])
                /\ (rename /\ ~AllPresent(MetaAt(i))) =>
                       \E w \in 1..Len(warnings) :
                           warnings[w] = Warning("MissingFields", dicomfiles[i])

\* C6: with nosort enabled no directory is ever created and every move goes
\* into the session folder; with rename enabled too and complete metadata for
\* every file, after the run every discovered file is in the session folder
\* under its template name.
C6_NoSortMode ==
    nosort =>
        /\ dirs = dirs0
        /\ \A k \in 1..Len(moves) :
               \E c \in 1..Len(calls) : dirname(moves[k].dst) = SessionFolderOf(calls[c])
        /\ (/\ rename
            /\ runs = 1
            /\ Ended
            /\ \A i \in 1..Len(dicomfiles) : i \in Discovered /\ AllPresent(MetaAt(i)))
           => \A i \in Discovered : IsAt(i, join(sessionfolder, TemplateName(i)))

\* C7 as stated: sortsessions makes exactly the specified invocations, in
\* order, whenever it ends.
C7_Dispatch ==
    pc \in {"returned", "raised"} => calls = ExpectedCalls

\* C7 as amended: the invocations made are always an initial part of the
\* specified ones, made one after another (the session at hand is the last
\* invocation), all of them once sortsessions returns; an exception ends the
\* enumeration with the raising invocation.
C7_DispatchUntilRaise ==
    /\ IsPrefix(calls, ExpectedCalls)
    /\ pc = "returned" => calls = ExpectedCalls
    /\ pc \in {"files", "raised"} =>
           /\ calls # <<>>
           /\ sessionfolder \in {calls[Len(calls)].sessionfolder,
                                 SessionFolderOf(calls[Len(calls)])}

\* C7: both prefixes given, two sessions in two subjects sorted, in order.
C7_Witness ==
    /\ pc = "returned"
    /\ sessionid # <<>>
    /\ subjectid # <<>>
    /\ Len(calls) = 2
    /\ calls[1].sessionfolder = <<D_sub1, D_ses1>>
    /\ calls[2].sessionfolder = <<D_sub2, D_ses1>>
    /\ <<D_sub1, D_y>> \in dirs0

C9_FailFast ==
    (pc = "raised" /\ exc # "IndexError") =>
        /\ ~ENABLED Next
        /\ \A k \in 1..Len(moves) :
               moves[k].dst \in DOMAIN fs /\ fs[moves[k].dst] = moves[k].file
        /\ \A j \in fileidx..Len(dicomfiles) :
               dicomfiles[j] \in DOMAIN RunStart =>
                   /\ dicomfiles[j] \in DOMAIN fs
                   /\ fs[dicomfiles[j]] = RunStart[dicomfiles[j]]

\* A later move (after move k) went onto path q, or took the file away from it
Overwritten(k, q) ==
    \E l \in (k + 1)..Len(moves) : moves[l].dst = q \/ moves[l].src = q

\* C9 as amended: an exception in the loop body ends the run at once and
\* undoes nothing: every file moved before is at its destination unless a
\* later move went onto that path, and file k and the files after it are where
\* they were unless an earlier move went onto their path.
C9_FailFastNoRollback ==
    /\ exc # "" <=> pc = "raised"
    /\ (pc = "raised" /\ exc # "IndexError") =>
        /\ ~ENABLED Next
        /\ \A k \in 1..Len(moves) :
               ~Overwritten(k, moves[k].dst) =>
                   moves[k].dst \in DOMAIN fs /\ fs[moves[k].dst] = moves[k].file
        /\ \A j \in fileidx..Len(dicomfiles) :
               (dicomfiles[j] \in DOMAIN RunStart /\ ~Overwritten(0, dicomfiles[j])) =>
                   /\ dicomfiles[j] \in DOMAIN fs
                   /\ fs[dicomfiles[j]] = RunStart[dicomfiles[j]]

\* C9: a file was moved out of its folder, then the pass over the second file
\* raised.
C9_Witness ==
    /\ pc = "raised"
    /\ exc \in {"ReadError", "OSError"}
    /\ fileidx = 2
    /\ Len(dicomfiles) = 2
    /\ Len(moves) = 1
    /\ moves[1].src # moves[1].dst

\* The name of the series subfolder of a file that has a SeriesNumber
SeriesNameOf(m) ==
    sanitize(fmt_d(m.SeriesNumber[1], 3) \o <<"-">> \o
             (IF TruthyStr(m.SeriesDescription) THEN m.SeriesDescription[1]
              ELSE IF TruthyStr(m.ProtocolName) THEN m.ProtocolName[1]
              ELSE unknown_protocol))

\* No folder named as the series subfolder of a file held a file at the start
SeriesDirsEmpty ==
    \A p, q \in DOMAIN fs0 :
        (Present(Meta(fs0[p].kind).SeriesNumber) /\ Len(q) >= 2) =>
            q[Len(q) - 1] # SeriesNameOf(Meta(fs0[p].kind))

\* C10: with rename disabled and the files found by listing the folder, the
\* series subfolders being empty at the start, every discovered file is at
\* exactly one path, its own or its name in a series subfolder, no two files
\* were moved to one path, and the tree holds as many files as at the start.
C10_NoFileLost ==
    (~rename /\ basename(rawfolder) # DICOMDIR /\ SeriesDirsEmpty) =>
        /\ \A i \in Discovered :
               /\ Cardinality({q \in DOMAIN fs : fs[q] = fs0[dicomfiles[i]]}) = 1
               /\ \A q \in DOMAIN fs :
                      IsAt(i, q) =>
                          \/ q = dicomfiles[i]
                          \/ /\ Len(q) = Len(sessionfolder) + 2
                             /\ dirname(dirname(q)) = sessionfolder
                             /\ basename(q) = basename(dicomfiles[i])
        /\ \A k, l \in 1..Len(moves) :
               moves[k].dst = moves[l].dst => moves[k].file = moves[l].file
        /\ Cardinality(DOMAIN fs) = Cardinality(DOMAIN fs0)

\* C10: two files of one folder were found by listing and both processed.
C10_Witness ==
    /\ ~rename
    /\ basename(rawfolder) # DICOMDIR
    /\ SeriesDirsEmpty
    /\ pc = "returned"
    /\ Len(dicomfiles) = 2
    /\ Len(moves) = 2
    /\ moves[1].file # moves[2].file

=============================================================================
